---- MODULE Spec2Model ----
(***************************************************************************)
(* The used-car listings cleaning pipeline of notebooks/01_project.ipynb.  *)
(* The notebook is a straight-line program: one action per code cell that  *)
(* changes the table `autos` or a value derived from it.  The helpers of   *)
(* the carsales package (load_autos, remove_chars, remove_prices,          *)
(* remove_registrations, compute_brands_avg_feature, mapping_ge_to_en) are *)
(* called by the notebook but their bodies are not part of the sources at  *)
(* hand; they are modelled from their documented contracts.                *)
(***************************************************************************)
EXTENDS Integers, Sequences, FiniteSets, TLC

VARIABLES
    pc,                  \* the next notebook cell to execute, "done" or "failed"
    header,              \* the column names of the source file, in its
                         \* order; <<>> when there is no file to read
    raw,                 \* the rows of the source file read by load_autos
    autos,               \* the DataFrame `autos`
    last_seen_years,     \* cell 65
    max_acceptable_year, \* cell 66
    outliers_year_mask,  \* cell 67
    brands,              \* cell 85
    brand_avg_prices,    \* cell 89
    brand_avg_mileages,  \* cell 93
    prices_and_mileages, \* cell 96
    top_brands_means,    \* the table shown by cell 101
    date_i,              \* position of the loop of cell 128 in date_columns
    call,                \* the function applied last by the function harness
    ret                  \* and what it returned

vars == <<pc, header, raw, autos, last_seen_years,
          max_acceptable_year, outliers_year_mask, brands, brand_avg_prices,
          brand_avg_mileages, prices_and_mileages, top_brands_means,
          date_i, call, ret>>

-----------------------------------------------------------------------------
(* Bounds of the model *)

\* longest table the pipeline is run on
MaxRows == 3

\* longest column or table handed to a function by the harness
MaxLen == 3

-----------------------------------------------------------------------------
(* Cell values.  A cell is null (NaN / None / NaT), a number, a categorical *)
(* string, or a text that the pipeline parses (a sequence of characters).   *)

Null == [t |-> "null"]

Num(n) == [t |-> "num", n |-> n]

Str(s) == [t |-> "str", s |-> s]

Txt(c) == [t |-> "txt", c |-> c]

IsNull(v) == v.t = "null"

IsNum(v) == v.t = "num"

IsTxt(v) == v.t = "txt"

\* the state of a name that no cell has bound yet
Unbound == [t |-> "unbound"]

\* a Python dict bound to a name
Dict(d) == [t |-> "dict", d |-> d]

-----------------------------------------------------------------------------
(* Texts *)

DigitChars == <<"0", "1", "2", "3", "4", "5", "6", "7", "8", "9">>

IsDigit(c) == \E i \in 1..10 : DigitChars[i] = c

DigitVal(c) == (CHOOSE i \in 1..10 : DigitChars[i] = c) - 1

DigitChar(d) == DigitChars[d + 1]

AllDigits(s) == \A i \in 1..Len(s) : IsDigit(s[i])

RECURSIVE DigitsVal(_)
DigitsVal(s) ==
    IF s = <<>> THEN 0
    ELSE 10 * DigitsVal(SubSeq(s, 1, Len(s) - 1)) + DigitVal(s[Len(s)])

\* s starts with sub
StartsWith(s, sub) ==
    /\ Len(sub) <= Len(s)
    /\ SubSeq(s, 1, Len(sub)) = sub

\* str.replace(sub, ''): every non-overlapping occurrence, left to right
RECURSIVE RemoveAll(_, _)
RemoveAll(s, sub) ==
    IF s = <<>> \/ sub = <<>> THEN s
    ELSE IF StartsWith(s, sub)
         THEN RemoveAll(SubSeq(s, Len(sub) + 1, Len(s)), sub)
         ELSE <<s[1]>> \o RemoveAll(Tail(s), sub)

\* n in decimal, zero-padded on the left to at least w characters (strftime)
RECURSIVE Pad(_, _)
Pad(n, w) ==
    IF n < 10 /\ w <= 1 THEN <<DigitChar(n)>>
    ELSE Pad(n \div 10, w - 1) \o <<DigitChar(n % 10)>>

-----------------------------------------------------------------------------
(* Timestamps: pd.to_datetime and Series.dt.strftime *)

IsLeap(y) == (y % 4 = 0 /\ y % 100 # 0) \/ y % 400 = 0

DaysIn(y, m) ==
    IF m = 2 THEN (IF IsLeap(y) THEN 29 ELSE 28)
    ELSE IF m \in {4, 6, 9, 11} THEN 30 ELSE 31

\* the fields of a text in the source format YYYY-MM-DD HH:MM:SS
DateFields(c) ==
    [y  |-> DigitsVal(SubSeq(c, 1, 4)),   mo |-> DigitsVal(SubSeq(c, 6, 7)),
     d  |-> DigitsVal(SubSeq(c, 9, 10)),  h  |-> DigitsVal(SubSeq(c, 12, 13)),
     mi |-> DigitsVal(SubSeq(c, 15, 16)), s  |-> DigitsVal(SubSeq(c, 18, 19))]

\* whether pd.to_datetime parses the text c (the column's format is the
\* source format YYYY-MM-DD HH:MM:SS)
ParsesAsDate(c) ==
    /\ Len(c) = 19
    /\ c[5] = "-" /\ c[8] = "-" /\ c[11] = " " /\ c[14] = ":" /\ c[17] = ":"
    /\ \A i \in (1..19) \ {5, 8, 11, 14, 17} : IsDigit(c[i])
    /\ LET f == DateFields(c)
       IN  /\ f.y >= 1
           /\ f.mo \in 1..12
           /\ f.d \in 1..DaysIn(f.y, f.mo)
           /\ f.h \in 0..23 /\ f.mi \in 0..59 /\ f.s \in 0..59

\* a parsed timestamp
Dt(f) == [t |-> "dt", f |-> f]

\* pd.to_datetime on one cell: NaN becomes NaT, a text becomes a timestamp
to_datetime_cell(v) == IF IsNull(v) THEN Null ELSE Dt(DateFields(v.c))

\* pd.to_datetime(series), when it does not raise
to_datetime(series) ==
    [i \in 1..Len(series) |->
        [index |-> series[i].index, v |-> to_datetime_cell(series[i].v)]]

\* whether pd.to_datetime(series) raises: it does (errors='raise' is the
\* default) as soon as one cell is a text that is no timestamp
to_datetime_raises(series) ==
    \E i \in 1..Len(series) :
        /\ ~IsNull(series[i].v)
        /\ ~(IsTxt(series[i].v) /\ ParsesAsDate(series[i].v.c))

\* date_format = "%Y%m%d %H:%M:%S"
strftime_cell(v) ==
    IF IsNull(v) THEN Null
    ELSE Txt(Pad(v.f.y, 4) \o Pad(v.f.mo, 2) \o Pad(v.f.d, 2) \o <<" ">>
             \o Pad(v.f.h, 2) \o <<":">> \o Pad(v.f.mi, 2) \o <<":">>
             \o Pad(v.f.s, 2))

\* Series.dt.strftime(date_format)
strftime(series) ==
    [i \in 1..Len(series) |->
        [index |-> series[i].index, v |-> strftime_cell(series[i].v)]]

\* Series.dt.year on one cell
dt_year_cell(v) == IF IsNull(v) THEN Null ELSE Num(v.f.y)

\* Series.dt.year
dt_year(series) ==
    [i \in 1..Len(series) |->
        [index |-> series[i].index, v |-> dt_year_cell(series[i].v)]]

-----------------------------------------------------------------------------
(* DataFrames and Series.  A DataFrame is the sequence of its rows, a row   *)
(* a record of its cells plus its label `index`; a Series is the sequence   *)
(* of [index, v].  Filtering keeps the labels of the rows it keeps.         *)

\* df[col]
Column(df, col) ==
    [i \in 1..Len(df) |-> [index |-> df[i].index, v |-> df[i][col]]]

\* the value of a Series at a label; NaN where the Series has no such label
AtLabel(series, label) ==
    IF \E i \in 1..Len(series) : series[i].index = label
    THEN series[CHOOSE i \in 1..Len(series) : series[i].index = label].v
    ELSE Null

\* df[col] = series: assignment aligns the Series on the row labels
SetColumn(df, col, series) ==
    [i \in 1..Len(df) |->
        [c \in (DOMAIN df[i]) \cup {col} |->
            IF c = col THEN AtLabel(series, df[i].index) ELSE df[i][c]]]

\* df.drop(columns=cols)
DropColumns(df, cols) ==
    [i \in 1..Len(df) |-> [c \in (DOMAIN df[i]) \ cols |-> df[i][c]]]

\* df.rename(columns={old: new})
RenameColumn(df, old, new) ==
    [i \in 1..Len(df) |->
        [c \in ((DOMAIN df[i]) \ {old}) \cup {new} |->
            IF c = new THEN df[i][old] ELSE df[i][c]]]

\* Series.between(left, right) on one cell: both ends inclusive; a
\* comparison with NaN is false
between(v, left, right) ==
    /\ IsNum(v) /\ IsNum(left) /\ IsNum(right)
    /\ left.n <= v.n /\ v.n <= right.n

\* a year fixed in the code in place of the maximum of the Series
SeriesMax_Hardcoded(series) == Num(2016)

\* Series.max(): NaN cells are skipped; NaN when nothing is left
SeriesMax(series) ==
    LET S == {series[i].v.n : i \in {j \in 1..Len(series) : IsNum(series[j].v)}}
    IN  IF S = {} THEN Null ELSE Num(CHOOSE m \in S : \A x \in S : x <= m)

\* Series.astype(float) on one cell: NaN stays NaN, a text of decimal
\* digits becomes the number it denotes
\* the cast to a 16-bit integer, which wraps around
astype_int16_cell(v) == IF IsNull(v) THEN Null ELSE Num(DigitsVal(v.c) % 65536)

astype_float_cell(v) == IF IsNull(v) THEN Null ELSE Num(DigitsVal(v.c))

\* Series.astype(float), when it does not raise
astype_float(series) ==
    [i \in 1..Len(series) |->
        [index |-> series[i].index, v |-> astype_float_cell(series[i].v)]]

\* whether Series.astype(float) raises ValueError: it does as soon as one
\* cell is a text that is no number (the empty text included)
astype_float_raises(series) ==
    \E i \in 1..Len(series) :
        /\ ~IsNull(series[i].v)
        /\ ~(IsTxt(series[i].v) /\ series[i].v.c # <<>> /\ AllDigits(series[i].v.c))

\* Series.map(mapping) on one cell: a value that is no key becomes NaN
replace_cell_map(v, mapping) ==
    IF v.t = "str" /\ v.s \in DOMAIN mapping THEN Str(mapping[v.s]) ELSE Null

\* Series.replace(mapping) on one cell: a value that is a key of the mapping
\* becomes the mapped value, every other value (NaN included) stays
replace_cell(v, mapping) ==
    IF v.t = "str" /\ v.s \in DOMAIN mapping THEN Str(mapping[v.s]) ELSE v

\* df[cols] = df[cols].replace(mapping), one column after the other
RECURSIVE replace(_, _, _)
replace(df, cols, mapping) ==
    IF cols = <<>> THEN df
    ELSE LET col == cols[1]
             new == [i \in 1..Len(df) |->
                        [index |-> df[i].index,
                         v |-> replace_cell(df[i][col], mapping)]]
         IN  replace(SetColumn(df, col, new), Tail(cols), mapping)

-----------------------------------------------------------------------------
(* The helpers of the carsales package, from their contracts *)

\* remove_chars on one cell: every occurrence of each substring of chars is
\* removed, one substring after the other; NaN stays NaN
RECURSIVE remove_chars_text(_, _)
remove_chars_text(c, chars) ==
    IF chars = <<>> THEN c
    ELSE remove_chars_text(RemoveAll(c, chars[1]), Tail(chars))

\* remove_chars(series, chars): a new Series of texts, labels kept
remove_chars(series, chars) ==
    [i \in 1..Len(series) |->
        [index |-> series[i].index,
         v |-> IF IsTxt(series[i].v)
               THEN Txt(remove_chars_text(series[i].v.c, chars))
               ELSE series[i].v]]

\* remove_prices with the lower bound exclusive
remove_prices_open_low(series, lo, hi) ==
    [i \in 1..Len(series) |->
        [index |-> series[i].index,
         v |-> IF IsNum(series[i].v) /\ lo < series[i].v.n /\ series[i].v.n <= hi
               THEN series[i].v
               ELSE Null]]

\* remove_prices with the upper bound exclusive
remove_prices_open_high(series, lo, hi) ==
    [i \in 1..Len(series) |->
        [index |-> series[i].index,
         v |-> IF IsNum(series[i].v) /\ lo <= series[i].v.n /\ series[i].v.n < hi
               THEN series[i].v
               ELSE Null]]

\* remove_prices(series, price_min, price_max): a copy of the Series in
\* which a price outside [price_min, price_max] is NaN; no row is removed
remove_prices(series, lo, hi) ==
    [i \in 1..Len(series) |->
        [index |-> series[i].index,
         v |-> IF IsNum(series[i].v) /\ lo <= series[i].v.n /\ series[i].v.n <= hi
               THEN series[i].v
               ELSE Null]]

\* remove_registrations that removes one row per call: the first row whose
\* year is out of range
remove_registrations_first_only(df, min_year, max_year) ==
    LET bad == {i \in 1..Len(df) : ~between(df[i].registration_year, min_year, max_year)}
    IN  IF bad = {} THEN df
        ELSE LET m == CHOOSE i \in bad : \A k \in bad : i <= k
             IN  SubSeq(df, 1, m - 1) \o SubSeq(df, m + 1, Len(df))

\* remove_registrations with the upper bound exclusive
remove_registrations_open_high(df, min_year, max_year) ==
    SelectSeq(df, LAMBDA row : /\ between(row.registration_year, min_year, max_year)
                               /\ row.registration_year # max_year)

\* remove_registrations(df, min_year, max_year): the rows whose registration
\* year lies in [min_year, max_year], in order, labels kept
remove_registrations(df, min_year, max_year) ==
    SelectSeq(df, LAMBDA row : between(row.registration_year, min_year, max_year))

\* greatest common divisor of two naturals, not both 0
RECURSIVE Gcd(_, _)
Gcd(a, b) == IF b = 0 THEN a ELSE Gcd(b, a % b)

\* the sum of the numbers of a sequence of numeric cells
RECURSIVE SumCells(_)
SumCells(cells) ==
    IF cells = <<>> THEN 0 ELSE cells[1].n + SumCells(Tail(cells))

\* the mean with NaN counted as 0
Mean_NullAsZero(cells) ==
    LET nums == SelectSeq(cells, IsNum)
        sum  == SumCells(nums)
        g    == Gcd(sum, Len(cells))
    IN  IF cells = <<>> THEN Null
        ELSE [t |-> "mean", num |-> sum \div g, den |-> Len(cells) \div g]

\* Series.mean(): the arithmetic mean of the cells that are not NaN, as the
\* fraction num/den in lowest terms; NaN when no cell is left
Mean(cells) ==
    LET nums == SelectSeq(cells, IsNum)
        sum  == SumCells(nums)
        g    == Gcd(sum, Len(nums))
    IN  IF nums = <<>> THEN Null
        ELSE [t |-> "mean", num |-> sum \div g, den |-> Len(nums) \div g]

\* the cells of column col in the rows of brand b, in order
BrandCells(df, b, col) ==
    LET rows == SelectSeq(df, LAMBDA row : row.brand = b)
    IN  [i \in 1..Len(rows) |-> rows[i][col]]

\* compute_brands_avg_feature with an entry for every retained brand
compute_brands_avg_feature_all_retained(df, retain, feature) ==
    [b \in retain |-> Mean(BrandCells(df, b, feature))]

\* compute_brands_avg_feature(df, brands, feature): the mean of the column
\* per retained brand; a retained brand with no row has no entry
compute_brands_avg_feature(df, retain, feature) ==
    [b \in {x \in retain : \E i \in 1..Len(df) : df[i].brand = x} |->
        Mean(BrandCells(df, b, feature))]

\* mapping_ge_to_en of carsales.constants: German categorical values to
\* English ones ('no' is a value of unrepaired_damage after translation)
mapping_ge_to_en ==
    [k \in {"manuell", "automatik", "benzin", "kleinwagen", "ja", "nein"} |->
        CASE k = "manuell"    -> "manual"
          [] k = "automatik"  -> "automatic"
          [] k = "benzin"     -> "petrol"
          [] k = "kleinwagen" -> "small car"
          [] k = "ja"         -> "yes"
          [] k = "nein"       -> "no"]

-----------------------------------------------------------------------------
(* Configuration of the notebook *)

price_max == 350000

price_min == 1

min_acceptable_year == 1886

\* brands = brands[brands >= 0.05], as a percentage
brand_min_percent == 5

\* the columns of the source file, in its order (data dictionary)
RawColumns ==
    <<"dateCrawled", "name", "seller", "offerType", "price", "abtest",
      "vehicleType", "yearOfRegistration", "gearbox", "powerPS", "model",
      "kilometer", "monthOfRegistration", "fuelType", "brand",
      "notRepairedDamage", "dateCreated", "nrOfPictures", "postalCode",
      "lastSeenOnline">>

\* the names assigned to autos.columns
NewColumns ==
    <<"date_crawled", "name", "seller", "offer_type", "price", "ab_test",
      "vehicle_type", "registration_year", "gearbox", "power_ps", "model",
      "odometer", "registration_month", "fuel_type", "brand",
      "unrepaired_damage", "ad_created", "n_pictures", "postal_code",
      "last_seen">>

\* categorical_columns with 'gearbox' removed from it as well
categorical_columns_no_gearbox == <<"vehicle_type", "fuel_type", "unrepaired_damage">>

\* categorical_columns once 'ab_test' is removed from it
categorical_columns == <<"vehicle_type", "gearbox", "fuel_type", "unrepaired_damage">>

\* the mapping of the replace on the model column
mapping_model == [k \in {"andere"} |-> "other"]

\* date_columns of the reformatting loop
date_columns == <<"date_crawled", "ad_created", "last_seen">>

-----------------------------------------------------------------------------
(* The source files the pipeline is run on *)

\* the text YYYY-MM-DD HH:MM:SS of a timestamp
DateText(y, mo, d, h, mi, s) ==
    Txt(Pad(y, 4) \o <<"-">> \o Pad(mo, 2) \o <<"-">> \o Pad(d, 2) \o <<" ">>
        \o Pad(h, 2) \o <<":">> \o Pad(mi, 2) \o <<":">> \o Pad(s, 2))

\* a row of the source file; the columns the pipeline never reads are fixed
RawRow(price, year, brand, vtype, gearbox, fuel, damage, model, km, crawled, created, seen) ==
    [dateCrawled |-> crawled, name |-> Str("listing"), seller |-> Str("privat"),
     offerType |-> Str("Angebot"), price |-> price, abtest |-> Str("test"),
     vehicleType |-> vtype, yearOfRegistration |-> Num(year),
     gearbox |-> gearbox, powerPS |-> Num(100), model |-> model,
     kilometer |-> km, monthOfRegistration |-> Num(3), fuelType |-> fuel,
     brand |-> Str(brand), notRepairedDamage |-> damage,
     dateCreated |-> created, nrOfPictures |-> Num(0),
     postalCode |-> Num(10115), lastSeenOnline |-> seen]

Km150 == Txt(<<"1", "5", "0", ",", "0", "0", "0", "k", "m">>)

Km5 == Txt(<<"5", ",", "0", "0", "0", "k", "m">>)

\* the rows the source files are made of: prices at, inside and outside the
\* price bounds, registration years at, inside and outside the year bounds,
\* a year later than the row's own last-seen and ad-created years, a
\* last-seen year earlier than min_acceptable_year, German,
\* untranslatable and missing categorical values, a price and a timestamp
\* that are no number and no timestamp
RowPool ==
    << RawRow(Txt(<<"$", "1">>), 1886, "bmw",
              Str("kleinwagen"), Str("manuell"), Str("benzin"), Str("nein"),
              Str("andere"), Km150,
              DateText(2016, 3, 26, 17, 47, 46), DateText(2016, 3, 26, 0, 0, 0),
              DateText(2016, 4, 7, 14, 36, 58)),
       RawRow(Txt(<<"$", "3", "5", "0", ",", "0", "0", "0">>), 2016, "bmw",
              Str("limousine"), Str("automatik"), Str("diesel"), Str("ja"),
              Str("golf"), Km5,
              DateText(2015, 11, 10, 9, 5, 1), DateText(2015, 11, 10, 0, 0, 0),
              DateText(2015, 12, 5, 23, 59, 59)),
       RawRow(Txt(<<"$", "0">>), 2010, "bmw",
              Null, Null, Null, Null, Null, Km150,
              DateText(2016, 4, 1, 8, 0, 0), DateText(2016, 4, 1, 0, 0, 0),
              DateText(2016, 4, 6, 12, 0, 0)),
       RawRow(Txt(<<"$", "4", "0", "0", ",", "0", "0", "0">>), 2000, "audi",
              Str("kombi"), Str("manuell"), Str("diesel"), Null,
              Str("a4"), Km150,
              DateText(2015, 3, 12, 16, 6, 22), DateText(2015, 3, 12, 0, 0, 0),
              DateText(2015, 3, 20, 1, 2, 3)),
       RawRow(Txt(<<"$", "5", ",", "0", "0", "0">>), 1001, "opel",
              Str("kleinwagen"), Str("automatik"), Str("benzin"), Str("nein"),
              Str("corsa"), Km5,
              DateText(2016, 3, 5, 14, 6, 30), DateText(2016, 3, 5, 0, 0, 0),
              DateText(2016, 3, 9, 6, 7, 8)),
       RawRow(Txt(<<"$", "x">>), 2010, "ford",
              Str("kombi"), Str("manuell"), Str("benzin"), Str("ja"),
              Str("focus"), Km5,
              DateText(2016, 3, 7, 10, 0, 0), DateText(2016, 3, 7, 0, 0, 0),
              DateText(2016, 3, 8, 11, 0, 0)),
       RawRow(Txt(<<"$", "3", ",", "5", "0", "0">>), 2005, "bmw",
              Str("limousine"), Str("manuell"), Str("benzin"), Str("nein"),
              Str("andere"), Km150,
              DateText(2016, 2, 29, 10, 30, 0),
              Txt(<<"u", "n", "k", "n", "o", "w", "n">>),
              DateText(2016, 4, 5, 20, 15, 0)),
       RawRow(Txt(<<"$", "5", "0", "0">>), 1885, "fiat",
              Str("cabrio"), Str("manuell"), Str("benzin"), Str("nein"),
              Str("andere"), Km5,
              DateText(1885, 6, 1, 12, 0, 0), DateText(1885, 6, 1, 0, 0, 0),
              DateText(1885, 6, 2, 12, 0, 0)) >>

\* every sequence over 1..n of length at most k
RECURSIVE SeqsUpTo(_, _)
SeqsUpTo(n, k) ==
    IF k = 0 THEN {<<>>}
    ELSE LET shorter == SeqsUpTo(n, k - 1)
         IN  shorter \cup {Append(q, i) : q \in shorter, i \in 1..n}

\* the source files: every sequence of at most MaxRows rows of the pool
RawFiles ==
    {[i \in 1..Len(q) |-> RowPool[q[i]]] : q \in SeqsUpTo(Len(RowPool), MaxRows)}

-----------------------------------------------------------------------------
(* The notebook, cell by cell.  A cell that raises stops the run: the       *)
(* statement that raised assigns nothing.                                   *)

NoCall == [fn |-> "none"]

\* the file's columns without the last one
ShortHeader == SubSeq(RawColumns, 1, Len(RawColumns) - 1)

\* the file's columns and one more
LongHeader == Append(RawColumns, "extra")

\* the file's columns with the first two in the other order
SwappedHeader == <<"name", "dateCrawled">> \o SubSeq(RawColumns, 3, Len(RawColumns))

\* the headers of the source files; <<>> stands for a file that is missing
\* or unreadable
Headers == {<<>>, RawColumns, ShortHeader, LongHeader, SwappedHeader}

\* the row of a file with header h: the cells of the row under the columns
\* of h, a column the pool does not fill being empty
RowFor(h, row) ==
    [c \in {h[k] : k \in 1..Len(h)} |-> IF c \in DOMAIN row THEN row[c] ELSE Null]

Init ==
    /\ pc = "load"
    /\ \E h \in Headers, f \in RawFiles :
          /\ header = h
          /\ raw = IF h = <<>> THEN <<>> ELSE [i \in 1..Len(f) |-> RowFor(h, f[i])]
    /\ autos = Unbound
    /\ last_seen_years = Unbound
    /\ max_acceptable_year = Unbound
    /\ outliers_year_mask = Unbound
    /\ brands = Unbound
    /\ brand_avg_prices = Unbound
    /\ brand_avg_mileages = Unbound
    /\ prices_and_mileages = Unbound
    /\ top_brands_means = Unbound
    /\ date_i = 1
    /\ call = NoCall
    /\ ret = Unbound

\* load_autos(): the rows of the file under the file's column names,
\* labelled 0, 1, 2, ...
load_autos(file) ==
    [i \in 1..Len(file) |->
        [c \in (DOMAIN file[i]) \cup {"index"} |->
            IF c = "index" THEN i - 1 ELSE file[i][c]]]

\* autos.columns = names: the k-th column takes the k-th name
SetColumns(df, old, names) ==
    [i \in 1..Len(df) |->
        [c \in {names[k] : k \in 1..Len(names)} \cup {"index"} |->
            IF c = "index" THEN df[i].index
            ELSE df[i][old[CHOOSE k \in 1..Len(names) : names[k] = c]]]]

\* load_autos that returns an empty table when there is no file
Load_Unchecked ==
    /\ pc = "load"
    /\ autos' = load_autos(raw)
    /\ pc' = "rename"
    /\ UNCHANGED <<header, raw, prices_and_mileages, top_brands_means, last_seen_years, max_acceptable_year, outliers_year_mask,
                   brands, brand_avg_prices, brand_avg_mileages, date_i, call, ret>>

\* cell 5: autos = load_autos(); it raises when there is no file to read
Load ==
    /\ pc = "load"
    /\ IF header = <<>>
       THEN /\ pc' = "failed"
            /\ autos' = autos
       ELSE /\ pc' = "rename"
            /\ autos' = load_autos(raw)
    /\ UNCHANGED <<header, raw, prices_and_mileages, top_brands_means, last_seen_years, max_acceptable_year, outliers_year_mask,
                   brands, brand_avg_prices, brand_avg_mileages, date_i, call, ret>>

\* cell 11: autos.columns = [...]; pandas raises ValueError (length
\* mismatch) when the table has another number of columns
Rename ==
    /\ pc = "rename"
    /\ IF Len(header) # Len(NewColumns)
       THEN /\ pc' = "failed"
            /\ autos' = autos
       ELSE /\ pc' = "drop"
            /\ autos' = SetColumns(autos, header, NewColumns)
    /\ UNCHANGED <<header, raw, prices_and_mileages, top_brands_means, last_seen_years, max_acceptable_year, outliers_year_mask,
                   brands, brand_avg_prices, brand_avg_mileages, date_i, call, ret>>

\* cell 18: autos.drop(columns=['seller', 'offer_type', 'n_pictures'], inplace=True)
Drop ==
    /\ pc = "drop"
    /\ autos' = DropColumns(autos, {"seller", "offer_type", "n_pictures"})
    /\ pc' = "price_chars"
    /\ UNCHANGED <<header, raw, prices_and_mileages, top_brands_means, last_seen_years, max_acceptable_year, outliers_year_mask,
                   brands, brand_avg_prices, brand_avg_mileages, date_i, call, ret>>

\* cell 21: autos['price'] = remove_chars(autos['price'], ['$', ','])
PriceChars ==
    /\ pc = "price_chars"
    /\ autos' = SetColumn(autos, "price",
                          remove_chars(Column(autos, "price"), <<(<<"$">>), (<<",">>)>>))
    /\ pc' = "price_float"
    /\ UNCHANGED <<header, raw, prices_and_mileages, top_brands_means, last_seen_years, max_acceptable_year, outliers_year_mask,
                   brands, brand_avg_prices, brand_avg_mileages, date_i, call, ret>>

\* cell 23: autos['price'] = autos['price'].astype(float)
PriceFloat ==
    /\ pc = "price_float"
    /\ IF astype_float_raises(Column(autos, "price"))
       THEN /\ pc' = "failed"
            /\ autos' = autos
       ELSE /\ pc' = "remove_prices"
            /\ autos' = SetColumn(autos, "price",
                                  astype_float(Column(autos, "price")))
    /\ UNCHANGED <<header, raw, prices_and_mileages, top_brands_means, last_seen_years, max_acceptable_year, outliers_year_mask,
                   brands, brand_avg_prices, brand_avg_mileages, date_i, call, ret>>

\* cells 29-30: autos['price'] = remove_prices(autos['price'], price_min, price_max)
RemovePrices ==
    /\ pc = "remove_prices"
    /\ autos' = SetColumn(autos, "price",
                          remove_prices(Column(autos, "price"), price_min, price_max))
    /\ pc' = "odometer_chars"
    /\ UNCHANGED <<header, raw, prices_and_mileages, top_brands_means, last_seen_years, max_acceptable_year, outliers_year_mask,
                   brands, brand_avg_prices, brand_avg_mileages, date_i, call, ret>>

\* cell 33: autos['odometer'] = remove_chars(autos['odometer'], ['km', ','])
OdometerChars ==
    /\ pc = "odometer_chars"
    /\ autos' = SetColumn(autos, "odometer",
                          remove_chars(Column(autos, "odometer"), <<(<<"k", "m">>), (<<",">>)>>))
    /\ pc' = "odometer_rename"
    /\ UNCHANGED <<header, raw, prices_and_mileages, top_brands_means, last_seen_years, max_acceptable_year, outliers_year_mask,
                   brands, brand_avg_prices, brand_avg_mileages, date_i, call, ret>>

\* cell 34: autos.rename(columns={'odometer': 'odometer_km'}, inplace=True)
OdometerRename ==
    /\ pc = "odometer_rename"
    /\ autos' = RenameColumn(autos, "odometer", "odometer_km")
    /\ pc' = "odometer_float"
    /\ UNCHANGED <<header, raw, prices_and_mileages, top_brands_means, last_seen_years, max_acceptable_year, outliers_year_mask,
                   brands, brand_avg_prices, brand_avg_mileages, date_i, call, ret>>

\* cell 36: autos['odometer_km'] = autos['odometer_km'].astype(float)
OdometerFloat ==
    /\ pc = "odometer_float"
    /\ IF astype_float_raises(Column(autos, "odometer_km"))
       THEN /\ pc' = "failed"
            /\ autos' = autos
       ELSE /\ pc' = "last_seen_years"
            /\ autos' = SetColumn(autos, "odometer_km",
                                  astype_float(Column(autos, "odometer_km")))
    /\ UNCHANGED <<header, raw, prices_and_mileages, top_brands_means, last_seen_years, max_acceptable_year, outliers_year_mask,
                   brands, brand_avg_prices, brand_avg_mileages, date_i, call, ret>>

\* cell 65: last_seen_years = pd.to_datetime(autos['last_seen']).dt.year
LastSeenYears ==
    /\ pc = "last_seen_years"
    /\ IF to_datetime_raises(Column(autos, "last_seen"))
       THEN /\ pc' = "failed"
            /\ last_seen_years' = last_seen_years
       ELSE /\ pc' = "max_acceptable_year"
            /\ last_seen_years' =
                   dt_year(to_datetime(Column(autos, "last_seen")))
    /\ UNCHANGED <<header, raw, prices_and_mileages, top_brands_means, autos, max_acceptable_year, outliers_year_mask,
                   brands, brand_avg_prices, brand_avg_mileages, date_i, call, ret>>

\* cell 66: max_acceptable_year = last_seen_years.max()
MaxAcceptableYear ==
    /\ pc = "max_acceptable_year"
    /\ max_acceptable_year' = SeriesMax(last_seen_years)
    /\ pc' = "outliers_year_mask"
    /\ UNCHANGED <<header, raw, prices_and_mileages, top_brands_means, autos, last_seen_years, outliers_year_mask,
                   brands, brand_avg_prices, brand_avg_mileages, date_i, call, ret>>

\* ~series.between(left, right): a Series of booleans
not_between(series, left, right) ==
    [i \in 1..Len(series) |->
        [index |-> series[i].index, v |-> ~between(series[i].v, left, right)]]

\* cell 67: outliers_year_mask =
\*     ~autos['registration_year'].between(min_acceptable_year, max_acceptable_year)
OutliersYearMask ==
    /\ pc = "outliers_year_mask"
    /\ outliers_year_mask' =
           not_between(Column(autos, "registration_year"),
                       Num(min_acceptable_year), max_acceptable_year)
    /\ pc' = "remove_registrations"
    /\ UNCHANGED <<header, raw, prices_and_mileages, top_brands_means, autos, last_seen_years, max_acceptable_year,
                   brands, brand_avg_prices, brand_avg_mileages, date_i, call, ret>>

\* cell 75 followed by the translation cells, the aggregation cells left
\* for the end of the notebook
RemoveRegistrations_ThenTranslate ==
    /\ pc = "remove_registrations"
    /\ autos' = remove_registrations(autos, Num(min_acceptable_year), max_acceptable_year)
    /\ pc' = "translate"
    /\ UNCHANGED <<header, raw, prices_and_mileages, top_brands_means, last_seen_years, max_acceptable_year, outliers_year_mask,
                   brands, brand_avg_prices, brand_avg_mileages, date_i, call, ret>>

\* cell 75: remove_registrations(autos, min_acceptable_year,
\*                               max_acceptable_year, inplace=True)
RemoveRegistrations ==
    /\ pc = "remove_registrations"
    /\ autos' = remove_registrations(autos, Num(min_acceptable_year), max_acceptable_year)
    /\ pc' = "brands"
    /\ UNCHANGED <<header, raw, prices_and_mileages, top_brands_means, last_seen_years, max_acceptable_year, outliers_year_mask,
                   brands, brand_avg_prices, brand_avg_mileages, date_i, call, ret>>

\* the number of rows of df whose brand is b
BrandCount(df, b) == Cardinality({i \in 1..Len(df) : df[i].brand = b})

\* brands = autos['brand'].value_counts(normalize=True)
\* brands = brands[brands >= 0.05].index
\* value_counts leaves NaN out and divides by the number of counted rows
top_brands(df) ==
    LET counted == {i \in 1..Len(df) : ~IsNull(df[i].brand)}
    IN  {b \in {df[i].brand : i \in counted} :
            BrandCount(df, b) * 100 >= brand_min_percent * Cardinality(counted)}

\* cell 85
Brands ==
    /\ pc = "brands"
    /\ brands' = top_brands(autos)
    /\ pc' = "brand_avg_prices"
    /\ UNCHANGED <<header, raw, prices_and_mileages, top_brands_means, autos, last_seen_years, max_acceptable_year,
                   outliers_year_mask, brand_avg_prices, brand_avg_mileages,
                   date_i, call, ret>>

\* cell 89: brand_avg_prices = compute_brands_avg_feature(autos, brands, 'price')
BrandAvgPrices ==
    /\ pc = "brand_avg_prices"
    /\ brand_avg_prices' = Dict(compute_brands_avg_feature(autos, brands, "price"))
    /\ pc' = "brand_avg_mileages"
    /\ UNCHANGED <<header, raw, prices_and_mileages, top_brands_means, autos, last_seen_years, max_acceptable_year,
                   outliers_year_mask, brands, brand_avg_mileages, date_i, call, ret>>

\* cell 93: brand_avg_mileages = compute_brands_avg_feature(autos, brands, 'odometer_km')
BrandAvgMileages ==
    /\ pc = "brand_avg_mileages"
    /\ brand_avg_mileages' =
           Dict(compute_brands_avg_feature(autos, brands, "odometer_km"))
    /\ pc' = "prices_and_mileages"
    /\ UNCHANGED <<header, raw, prices_and_mileages, top_brands_means, autos, last_seen_years, max_acceptable_year,
                   outliers_year_mask, brands, brand_avg_prices, date_i, call, ret>>

\* the orders a set of keys can be listed in
Orders(S) ==
    {q \in [1..Cardinality(S) -> S] : \A a, b \in 1..Cardinality(S) : q[a] = q[b] => a = b}

\* cells 95-96: brand_avg_prices = pd.Series(brand_avg_prices), the same for
\* brand_avg_mileages, and
\*     prices_and_mileages = pd.DataFrame({'mean_price': brand_avg_prices,
\*                                         'mean_mileage': brand_avg_mileages})
\* the index lists the brands in the order of the keys of the mappings,
\* an order that compute_brands_avg_feature leaves open
PricesAndMileages ==
    /\ pc = "prices_and_mileages"
    /\ \E order \in Orders(DOMAIN brand_avg_prices.d) :
          prices_and_mileages' =
              [k \in 1..Len(order) |->
                  [index |-> order[k],
                   mean_price |-> brand_avg_prices.d[order[k]],
                   mean_mileage |-> brand_avg_mileages.d[order[k]]]]
    /\ pc' = "groupby_top_brands"
    /\ UNCHANGED <<header, raw, autos, last_seen_years, max_acceptable_year,
                   outliers_year_mask, brands, brand_avg_prices, brand_avg_mileages,
                   top_brands_means, date_i, call, ret>>

\* the place of a brand in the alphabetical order
BrandRank(b) ==
    CASE b.s = "audi" -> 1
      [] b.s = "bmw"  -> 2
      [] b.s = "fiat" -> 3
      [] b.s = "ford" -> 4
      [] b.s = "opel" -> 5

\* the brands of S in alphabetical order (groupby sorts its keys)
SortedBrands(S) ==
    [k \in 1..Cardinality(S) |->
        CHOOSE b \in S : Cardinality({c \in S : BrandRank(c) < BrandRank(b)}) = k - 1]

\* round(decimals=2) of a mean, in hundredths; NaN stays NaN
Round2(m) ==
    IF IsNull(m) THEN Null
    ELSE [t |-> "hundredths", n |-> (200 * m.num + m.den) \div (2 * m.den)]

\* cells 99-101: autos_top_brands = autos[autos['brand'].isin(brands)]
\*     autos_top_brands.groupby('brand')[['price', 'odometer_km']].mean()
\*         .round(decimals=2).set_index(prices_and_mileages.index)
\* groupby lists the brands in alphabetical order; set_index puts the k-th
\* label of prices_and_mileages.index on the k-th row and raises ValueError
\* when the lengths differ
GroupbyTopBrands ==
    /\ pc = "groupby_top_brands"
    /\ LET autos_top_brands == SelectSeq(autos, LAMBDA row : row.brand \in brands)
           groups == SortedBrands({autos_top_brands[i].brand :
                                      i \in 1..Len(autos_top_brands)})
       IN  IF Len(groups) # Len(prices_and_mileages)
           THEN /\ pc' = "failed"
                /\ top_brands_means' = top_brands_means
           ELSE /\ pc' = "translate"
                /\ top_brands_means' =
                       [k \in 1..Len(groups) |->
                           [index |-> prices_and_mileages[k].index,
                            price |-> Round2(Mean(BrandCells(autos_top_brands,
                                                             groups[k], "price"))),
                            odometer_km |-> Round2(Mean(BrandCells(autos_top_brands,
                                                                   groups[k], "odometer_km")))]]
    /\ UNCHANGED <<header, raw, autos, last_seen_years, max_acceptable_year,
                   outliers_year_mask, brands, brand_avg_prices, brand_avg_mileages,
                   prices_and_mileages, date_i, call, ret>>

\* the translation followed by dropna(subset=categorical_columns): the rows
\* with an empty categorical cell are removed
Translate_Dropna ==
    /\ pc = "translate"
    /\ autos' = SelectSeq(replace(autos, categorical_columns, mapping_ge_to_en),
                          LAMBDA row : \A k \in 1..Len(categorical_columns) :
                                           ~IsNull(row[categorical_columns[k]]))
    /\ pc' = "translate_model"
    /\ UNCHANGED <<header, raw, prices_and_mileages, top_brands_means, last_seen_years, max_acceptable_year, outliers_year_mask,
                   brands, brand_avg_prices, brand_avg_mileages, date_i, call, ret>>

\* cell 119: autos[categorical_columns] =
\*     autos[categorical_columns].replace(mapping_ge_to_en)
Translate ==
    /\ pc = "translate"
    /\ autos' = replace(autos, categorical_columns, mapping_ge_to_en)
    /\ pc' = "translate_model"
    /\ UNCHANGED <<header, raw, prices_and_mileages, top_brands_means, last_seen_years, max_acceptable_year, outliers_year_mask,
                   brands, brand_avg_prices, brand_avg_mileages, date_i, call, ret>>

\* cell 121: autos['model'] = autos['model'].replace({'andere': 'other'})
TranslateModel ==
    /\ pc = "translate_model"
    /\ autos' = replace(autos, <<"model">>, mapping_model)
    /\ pc' = "reformat_dates"
    /\ UNCHANGED <<header, raw, prices_and_mileages, top_brands_means, last_seen_years, max_acceptable_year, outliers_year_mask,
                   brands, brand_avg_prices, brand_avg_mileages, date_i, call, ret>>

\* pd.to_datetime(series).dt.strftime(date_format)
reformat_dates(series) == strftime(to_datetime(series))

\* one turn of the loop with the failure of pd.to_datetime swallowed: the
\* column is left as it is and the loop goes on
ReformatDates_SkipFailed ==
    /\ pc = "reformat_dates"
    /\ LET column == date_columns[date_i]
       IN  /\ autos' = IF to_datetime_raises(Column(autos, column)) THEN autos
                        ELSE SetColumn(autos, column,
                                       reformat_dates(Column(autos, column)))
           /\ IF date_i < Len(date_columns)
              THEN /\ date_i' = date_i + 1
                   /\ pc' = pc
              ELSE /\ date_i' = date_i
                   /\ pc' = "price_notnull"
    /\ UNCHANGED <<header, raw, prices_and_mileages, top_brands_means, last_seen_years, max_acceptable_year, outliers_year_mask,
                   brands, brand_avg_prices, brand_avg_mileages, call, ret>>

\* cell 128, one turn of the loop:
\*     autos[column] = pd.to_datetime(autos[column]).dt.strftime(date_format)
ReformatDates ==
    /\ pc = "reformat_dates"
    /\ LET column == date_columns[date_i]
       IN  IF to_datetime_raises(Column(autos, column))
           THEN /\ pc' = "failed"
                /\ UNCHANGED <<autos, date_i>>
           ELSE /\ autos' = SetColumn(autos, column,
                                      reformat_dates(Column(autos, column)))
                /\ IF date_i < Len(date_columns)
                   THEN /\ date_i' = date_i + 1
                        /\ pc' = pc
                   ELSE /\ date_i' = date_i
                        /\ pc' = "price_notnull"
    /\ UNCHANGED <<header, raw, prices_and_mileages, top_brands_means, last_seen_years, max_acceptable_year, outliers_year_mask,
                   brands, brand_avg_prices, brand_avg_mileages, call, ret>>

\* the last cell without its filter: every row is kept
PriceNotNull_KeepAll ==
    /\ pc = "price_notnull"
    /\ pc' = "done"
    /\ UNCHANGED <<header, raw, prices_and_mileages, top_brands_means, autos, last_seen_years, max_acceptable_year, outliers_year_mask,
                   brands, brand_avg_prices, brand_avg_mileages, date_i, call, ret>>

\* cell 148: autos = autos[autos['price'].notnull()]
PriceNotNull ==
    /\ pc = "price_notnull"
    /\ autos' = SelectSeq(autos, LAMBDA row : ~IsNull(row.price))
    /\ pc' = "done"
    /\ UNCHANGED <<header, raw, prices_and_mileages, top_brands_means, last_seen_years, max_acceptable_year, outliers_year_mask,
                   brands, brand_avg_prices, brand_avg_mileages, date_i, call, ret>>

Next ==
    \/ Load
    \/ Rename
    \/ Drop
    \/ PriceChars
    \/ PriceFloat
    \/ RemovePrices
    \/ OdometerChars
    \/ OdometerRename
    \/ OdometerFloat
    \/ LastSeenYears
    \/ MaxAcceptableYear
    \/ OutliersYearMask
    \/ RemoveRegistrations
    \/ Brands
    \/ BrandAvgPrices
    \/ BrandAvgMileages
    \/ PricesAndMileages
    \/ GroupbyTopBrands
    \/ Translate
    \/ TranslateModel
    \/ ReformatDates
    \/ PriceNotNull

Spec == Init /\ [][Next]_vars

-----------------------------------------------------------------------------
(* The function harness: one helper applied once to an input of a bounded *)
(* set.  `call` records the application and `ret` its result.              *)

\* every sequence over the set S of length at most k
RECURSIVE SeqsOver(_, _)
SeqsOver(S, k) ==
    IF k = 0 THEN {<<>>}
    ELSE LET shorter == SeqsOver(S, k - 1)
         IN  shorter \cup {Append(q, x) : q \in shorter, x \in S}

\* the Series of the cells, labelled first, first + 1, ...
SeriesOf(cells, first) ==
    [i \in 1..Len(cells) |-> [index |-> first + i - 1, v |-> cells[i]]]

\* the first label of a table: 0 as loaded, later when rows were removed
FirstLabels == {0, 1}

PriceCells == {Null, Num(0), Num(1), Num(2), Num(350000), Num(999999)}

PriceBounds == {1, 2, 350000}

\* the price column of the documented example
ExamplePrices == <<Num(0), Num(1), Num(350000), Num(999999)>>

PriceSeries ==
    {SeriesOf(cells, first) :
        cells \in SeqsOver(PriceCells, MaxLen) \cup {ExamplePrices},
        first \in FirstLabels}

CallRemovePrices ==
    /\ pc = "harness"
    /\ \E series \in PriceSeries, lo \in PriceBounds, hi \in PriceBounds :
          /\ call' = [fn |-> "remove_prices", series |-> series, lo |-> lo, hi |-> hi]
          /\ ret' = remove_prices(series, lo, hi)
    /\ pc' = "returned"
    /\ UNCHANGED <<header, raw, prices_and_mileages, top_brands_means, autos, last_seen_years, max_acceptable_year, outliers_year_mask,
                   brands, brand_avg_prices, brand_avg_mileages, date_i>>

YearCells == {Num(1001), Num(1886), Num(2000), Num(2016), Num(2017)}

YearBounds == {Num(1886), Num(2000), Num(2016)}

\* a table of the year cells; the other columns tell the rows apart
YearTable(cells, first) ==
    [i \in 1..Len(cells) |->
        [index |-> first + i - 1, registration_year |-> cells[i],
         brand |-> Str("bmw"), price |-> Num(100 * i)]]

YearTables ==
    {YearTable(cells, first) : cells \in SeqsOver(YearCells, MaxLen),
                               first \in FirstLabels}

CallRemoveRegistrations ==
    /\ pc = "harness"
    /\ \E df \in YearTables, lo \in YearBounds, hi \in YearBounds \cup {Null} :
          /\ call' = [fn |-> "remove_registrations", df |-> df,
                      min_year |-> lo, max_year |-> hi]
          /\ ret' = remove_registrations(df, lo, hi)
    /\ pc' = "returned"
    /\ UNCHANGED <<header, raw, prices_and_mileages, top_brands_means, autos, last_seen_years, max_acceptable_year, outliers_year_mask,
                   brands, brand_avg_prices, brand_avg_mileages, date_i>>

\* the texts of the price and odometer columns: with and without the
\* characters to strip, a text that is no number once stripped, a text that
\* is empty once stripped, NaN
NumberTexts ==
    {Null,
     Txt(<<"$", "3", ",", "5", "0", "0">>),
     Txt(<<"3", "5", "0", "0">>),
     Txt(<<"$", "0">>),
     Txt(<<"1", "5", "0", ",", "0", "0", "0", "k", "m">>),
     Txt(<<"$", "x">>),
     Txt(<<"$">>)}

\* the lists of substrings of the two calls of remove_chars
StripLists == {<<(<<"$">>), (<<",">>)>>, <<(<<"k", "m">>), (<<",">>)>>}

\* remove_chars(series, chars).astype(float); the Series passed in is read
\* again after the call
CallStripAndCast ==
    /\ pc = "harness"
    /\ \E cells \in SeqsOver(NumberTexts, MaxLen), first \in FirstLabels,
          chars \in StripLists :
          LET series   == SeriesOf(cells, first)
              stripped == remove_chars(series, chars)
          IN  /\ call' = [fn |-> "strip_and_cast", series |-> series,
                          chars |-> chars, series_after |-> series,
                          raised |-> astype_float_raises(stripped)]
              /\ ret' = IF astype_float_raises(stripped) THEN Unbound
                        ELSE astype_float(stripped)
    /\ pc' = "returned"
    /\ UNCHANGED <<header, raw, prices_and_mileages, top_brands_means, autos, last_seen_years, max_acceptable_year, outliers_year_mask,
                   brands, brand_avg_prices, brand_avg_mileages, date_i>>

\* the texts of a date column: timestamps, a day that does not exist, a
\* text that is no timestamp, NaN
DateTexts ==
    {Null,
     DateText(2016, 3, 26, 17, 47, 46),
     DateText(2016, 2, 29, 0, 0, 0),
     DateText(1999, 12, 31, 23, 59, 59),
     DateText(2015, 2, 30, 8, 0, 0),
     Txt(<<"u", "n", "k", "n", "o", "w", "n">>)}

\* pd.to_datetime(series).dt.strftime(date_format) on one column
CallReformatDates ==
    /\ pc = "harness"
    /\ \E cells \in SeqsOver(DateTexts, MaxLen), first \in FirstLabels :
          LET series == SeriesOf(cells, first)
          IN  /\ call' = [fn |-> "reformat_dates", series |-> series,
                          raised |-> to_datetime_raises(series)]
              /\ ret' = IF to_datetime_raises(series) THEN Unbound
                        ELSE reformat_dates(series)
    /\ pc' = "returned"
    /\ UNCHANGED <<header, raw, prices_and_mileages, top_brands_means, autos, last_seen_years, max_acceptable_year, outliers_year_mask,
                   brands, brand_avg_prices, brand_avg_mileages, date_i>>

\* remove_registrations applied to its own result, with the same bounds
ReapplyRemoveRegistrations ==
    /\ pc = "returned"
    /\ call.fn = "remove_registrations"
    /\ call' = [fn |-> "remove_registrations", df |-> call.df,
                min_year |-> call.min_year, max_year |-> call.max_year,
                once |-> ret]
    /\ ret' = remove_registrations(ret, call.min_year, call.max_year)
    /\ pc' = "reapplied"
    /\ UNCHANGED <<header, raw, prices_and_mileages, top_brands_means, autos, last_seen_years, max_acceptable_year, outliers_year_mask,
                   brands, brand_avg_prices, brand_avg_mileages, date_i>>

BrandRows ==
    {[brand |-> Str(b), price |-> p] :
        b \in {"A", "B"}, p \in {Null, Num(50), Num(100), Num(300)}}

BrandTable(rows) ==
    [i \in 1..Len(rows) |->
        [index |-> i - 1, brand |-> rows[i].brand, price |-> rows[i].price]]

BrandTables == {BrandTable(rows) : rows \in SeqsOver(BrandRows, MaxLen)}

RetainSets == SUBSET {Str("A"), Str("B"), Str("C")}

CallComputeBrandsAvgFeature ==
    /\ pc = "harness"
    /\ \E df \in BrandTables, retain \in RetainSets :
          /\ call' = [fn |-> "compute_brands_avg_feature", df |-> df,
                      brands |-> retain, feature |-> "price"]
          /\ ret' = compute_brands_avg_feature(df, retain, "price")
    /\ pc' = "returned"
    /\ UNCHANGED <<header, raw, prices_and_mileages, top_brands_means, autos, last_seen_years, max_acceptable_year, outliers_year_mask,
                   brands, brand_avg_prices, brand_avg_mileages, date_i>>

CategoryRows ==
    {[gearbox |-> g, model |-> m] :
        g \in {Null, Str("manuell"), Str("manual")},
        m \in {Str("andere"), Str("manuell")}}

CategoryTable(rows, first) ==
    [i \in 1..Len(rows) |->
        [index |-> first + i - 1, gearbox |-> rows[i].gearbox,
         model |-> rows[i].model]]

CategoryTables ==
    {CategoryTable(rows, first) : rows \in SeqsOver(CategoryRows, MaxLen),
                                  first \in FirstLabels}

TargetColumns == {<<>>, <<"gearbox">>, <<"model">>, <<"gearbox", "model">>}

\* a mapping with a value that is also a key
mapping_chain ==
    [k \in {"manuell", "manual"} |-> IF k = "manuell" THEN "manual" ELSE "hand"]

Mappings == {mapping_ge_to_en, mapping_model, mapping_chain}

CallReplace ==
    /\ pc = "harness"
    /\ \E df \in CategoryTables, cols \in TargetColumns, mapping \in Mappings :
          /\ call' = [fn |-> "replace", df |-> df, cols |-> cols, mapping |-> mapping]
          /\ ret' = replace(df, cols, mapping)
    /\ pc' = "returned"
    /\ UNCHANGED <<header, raw, prices_and_mileages, top_brands_means, autos, last_seen_years, max_acceptable_year, outliers_year_mask,
                   brands, brand_avg_prices, brand_avg_mileages, date_i>>

\* replace applied to its own result, with the same columns and mapping
ReapplyReplace ==
    /\ pc = "returned"
    /\ call.fn = "replace"
    /\ call' = [fn |-> "replace", df |-> call.df, cols |-> call.cols,
                mapping |-> call.mapping, once |-> ret]
    /\ ret' = replace(ret, call.cols, call.mapping)
    /\ pc' = "reapplied"
    /\ UNCHANGED <<header, raw, prices_and_mileages, top_brands_means, autos, last_seen_years, max_acceptable_year, outliers_year_mask,
                   brands, brand_avg_prices, brand_avg_mileages, date_i>>

FnInit ==
    /\ pc = "harness"
    /\ header = RawColumns
    /\ raw = <<>>
    /\ autos = Unbound
    /\ last_seen_years = Unbound
    /\ max_acceptable_year = Unbound
    /\ outliers_year_mask = Unbound
    /\ brands = Unbound
    /\ brand_avg_prices = Unbound
    /\ brand_avg_mileages = Unbound
    /\ prices_and_mileages = Unbound
    /\ top_brands_means = Unbound
    /\ date_i = 1
    /\ call = NoCall
    /\ ret = Unbound

FnNext ==
    \/ CallRemovePrices
    \/ CallRemoveRegistrations
    \/ ReapplyRemoveRegistrations
    \/ CallComputeBrandsAvgFeature
    \/ CallReplace
    \/ CallStripAndCast
    \/ CallReformatDates
    \/ ReapplyReplace

FnSpec == FnInit /\ [][FnNext]_vars

-----------------------------------------------------------------------------
(* The stages of the pipeline *)

\* the stage each cell belongs to
StageOf(cell) ==
    CASE cell \in {"load", "rename", "drop"}                     -> "Loader"
      [] cell \in {"price_chars", "price_float"}                 -> "PriceNormalizer"
      [] cell = "remove_prices"                                  -> "PriceBound"
      [] cell \in {"odometer_chars", "odometer_rename", "odometer_float"}
                                                                 -> "OdometerNormalizer"
      [] cell \in {"last_seen_years", "max_acceptable_year",
                   "outliers_year_mask", "remove_registrations"} -> "RegistrationFilter"
      [] cell \in {"brands", "brand_avg_prices", "brand_avg_mileages",
                   "prices_and_mileages", "groupby_top_brands"}
                                                                 -> "Aggregator"
      [] cell \in {"translate", "translate_model"}               -> "Translator"
      [] cell = "reformat_dates"                                 -> "DateNormalizer"
      [] cell = "price_notnull"                                  -> "NullPriceFilter"
      [] cell = "done"                                           -> "End"

\* the order the stages run in
StageOrder ==
    <<"Loader", "PriceNormalizer", "PriceBound", "OdometerNormalizer",
      "RegistrationFilter", "Aggregator", "Translator", "DateNormalizer",
      "NullPriceFilter", "End">>

\* the place of the stage of a cell in StageOrder
Rank(cell) == CHOOSE k \in 1..Len(StageOrder) : StageOrder[k] = StageOf(cell)

\* the stage has run to its end in the current state
Completed(stage) == pc # "failed" /\ \E c \in {"load", "brands", "translate", "reformat_dates", "price_notnull", "done"} : StageOf(c) = stage /\ Rank(pc) > Rank(c)

\* the Aggregator has produced at least one of its two mappings
Aggregated == brand_avg_prices # Unbound \/ brand_avg_mileages # Unbound

-----------------------------------------------------------------------------
(* C1 *)

\* C1, as stated: the Aggregator never runs before the Categorical
\* Translator and the Date Normalizer have completed, and no step removes
\* rows once the Aggregator has run.
C1_AggregatorLast ==
    [][/\ Aggregated' => Completed("Translator")' /\ Completed("DateNormalizer")'
       /\ Aggregated => Len(autos') = Len(autos)]_vars

\* C1, amended: every step stays in its stage or moves to the next stage of
\* StageOrder (Loader, price normalizer, price bound, odometer normalizer,
\* registration filter, Aggregator, Translator, Date Normalizer, null-price
\* filter) unless it fails; the Translator and the Date Normalizer run only
\* once both aggregates exist, and the table keeps its rows from the
\* Aggregator on until the null-price filter, the one step that removes
\* rows after it.
C1_AggregatorBeforeTranslator ==
    [][/\ pc' # "failed" => Rank(pc') \in {Rank(pc), Rank(pc) + 1}
       /\ (pc' # "failed" /\ Rank(pc') > Rank("brands"))
              => brand_avg_prices' # Unbound /\ brand_avg_mileages' # Unbound
       /\ (Aggregated /\ pc # "price_notnull") => Len(autos') = Len(autos)]_vars

\* C1 witness: the run is over, the aggregates were computed, and the
\* null-price filter removed a row after that.
C1_Witness ==
    /\ pc = "done"
    /\ brand_avg_prices # Unbound
    /\ brand_avg_mileages # Unbound
    /\ \E i \in 1..Len(raw) : \A j \in 1..Len(autos) : autos[j].index # i - 1
    /\ \E b \in DOMAIN brand_avg_prices.d : IsNull(brand_avg_prices.d[b])

-----------------------------------------------------------------------------
(* C2, C3: remove_prices *)

\* C2: remove_prices(series, lo, hi) returns a Series of the same length and
\* labels in which a price is NaN exactly when it is below lo or above hi (or
\* was NaN); a price equal to lo or to hi passes unchanged; the documented
\* example [0, 1, 350000, 999999] with bounds 1 and 350000 gives
\* [NaN, 1, 350000, NaN].
C2_BoundInclusive ==
    call.fn = "remove_prices" =>
        /\ Len(ret) = Len(call.series)
        /\ \A i \in 1..Len(ret) :
              LET v == call.series[i].v
              IN  /\ ret[i].index = call.series[i].index
                  /\ IsNull(ret[i].v) <=>
                        (IsNull(v) \/ v.n < call.lo \/ v.n > call.hi)
                  /\ ~IsNull(ret[i].v) => ret[i].v = v
                  /\ (IsNum(v) /\ v.n \in {call.lo, call.hi} /\ call.lo <= call.hi)
                        => ret[i].v = v
        /\ ([i \in 1..Len(ret) |-> call.series[i].v] = ExamplePrices
                /\ call.lo = 1 /\ call.hi = 350000)
              => [i \in 1..Len(ret) |-> ret[i].v]
                    = <<Null, Num(1), Num(350000), Null>>

\* C2 witness: the documented example has been applied.
C2_Witness ==
    /\ call.fn = "remove_prices"
    /\ [i \in 1..Len(call.series) |-> call.series[i].v] = ExamplePrices
    /\ call.lo = 1 /\ call.hi = 350000
    /\ [i \in 1..Len(ret) |-> ret[i].v] = <<Null, Num(1), Num(350000), Null>>

\* C3, as stated: with price_min <= price_max, a price is NaN in the result
\* exactly when it is outside the half-open interval (price_min, price_max],
\* so a price equal to price_min is NaN, and every remaining price p has
\* price_min < p <= price_max.
C3_HalfOpenInterval ==
    (call.fn = "remove_prices" /\ call.lo <= call.hi) =>
        \A i \in 1..Len(ret) :
            LET v == call.series[i].v
            IN  /\ (IsNum(v) /\ ~(call.lo < v.n /\ v.n <= call.hi)) => IsNull(ret[i].v)
                /\ (IsNum(v) /\ call.lo < v.n /\ v.n <= call.hi) => ret[i].v = v
                /\ IsNum(ret[i].v) => call.lo < ret[i].v.n /\ ret[i].v.n <= call.hi

\* C3, amended: with price_min <= price_max, a price is NaN in the result
\* exactly when it is outside the closed interval [price_min, price_max]; a
\* price inside it, price_min included, passes unchanged, and every remaining
\* price p has price_min <= p <= price_max.
C3_ClosedInterval ==
    (call.fn = "remove_prices" /\ call.lo <= call.hi) =>
        \A i \in 1..Len(ret) :
            LET v == call.series[i].v
            IN  /\ (IsNum(v) /\ ~(call.lo <= v.n /\ v.n <= call.hi)) => IsNull(ret[i].v)
                /\ (IsNum(v) /\ call.lo <= v.n /\ v.n <= call.hi) => ret[i].v = v
                /\ IsNum(ret[i].v) => call.lo <= ret[i].v.n /\ ret[i].v.n <= call.hi

\* C3 witness: with price_min < price_max, a price equal to price_min and a
\* price equal to price_max were kept, one below and one above were nulled.
C3_Witness ==
    /\ call.fn = "remove_prices"
    /\ call.lo < call.hi
    /\ \E i \in 1..Len(ret) : ret[i].v = Num(call.lo)
    /\ \E i \in 1..Len(ret) : ret[i].v = Num(call.hi)
    /\ \E i \in 1..Len(ret) :
          IsNum(call.series[i].v) /\ call.series[i].v.n < call.lo /\ IsNull(ret[i].v)
    /\ \E i \in 1..Len(ret) :
          IsNum(call.series[i].v) /\ call.series[i].v.n > call.hi /\ IsNull(ret[i].v)

-----------------------------------------------------------------------------
(* C4, C7, C8: the registration-year filter in the pipeline *)

\* remove_registrations has run (the run may have failed in a later cell)
RegistrationsRemoved ==
    /\ max_acceptable_year # Unbound
    /\ pc \notin {"outliers_year_mask", "remove_registrations"}

\* the registration year of the row lies in
\* [min_acceptable_year, max_acceptable_year]
YearInRange(row) ==
    /\ IsNum(max_acceptable_year)
    /\ min_acceptable_year <= row.registration_year.n
    /\ row.registration_year.n <= max_acceptable_year.n

\* every row of the table has its registration year in the range
AllYearsInRange == \A j \in 1..Len(autos) : YearInRange(autos[j])

\* the j-th smallest element of a set of numbers
Nth(S, j) == CHOOSE i \in S : Cardinality({k \in S : k <= i}) = j

\* C4: the step of remove_registrations keeps exactly the rows whose
\* registration year lies in [min_acceptable_year, max_acceptable_year]
\* (either bound included), in order and with every field unchanged, and
\* from then on every row of the table has its year in that range.
C4_RegistrationRange ==
    [][/\ pc = "remove_registrations" =>
              LET K == {i \in 1..Len(autos) : YearInRange(autos[i])}
              IN  /\ Len(autos') = Cardinality(K)
                  /\ \A j \in 1..Len(autos') : autos'[j] = autos[Nth(K, j)]
       /\ RegistrationsRemoved' => AllYearsInRange']_vars

\* C4 witness: right after the removal, a row at the lower bound and a row
\* at the upper bound are in the table and a row of the file is not.
C4_Witness ==
    /\ pc = "brands"
    /\ \E j \in 1..Len(autos) : autos[j].registration_year = Num(min_acceptable_year)
    /\ \E j \in 1..Len(autos) : autos[j].registration_year = max_acceptable_year
    /\ Len(autos) < Len(raw)

\* the year of a timestamp text, in either format
YearOf(v) == DigitsVal(SubSeq(v.c, 1, 4))

\* the text starts with the four digits of a year
HasYear(v) == IsTxt(v) /\ Len(v.c) >= 4 /\ AllDigits(SubSeq(v.c, 1, 4))

\* the latest last-seen year of the rows of the file; NaN for an empty file
RawMaxLastSeenYear ==
    LET Y == {YearOf(raw[i].lastSeenOnline) : i \in 1..Len(raw)}
    IN  IF Y = {} THEN Null ELSE Num(CHOOSE m \in Y : \A y \in Y : y <= m)

\* C7: the upper bound is the latest last-seen year of all rows of the
\* table (no row is removed before it is computed), and after the removal
\* no row has a registration year later than it.
C7_DynamicUpperBound ==
    max_acceptable_year # Unbound =>
        /\ max_acceptable_year = RawMaxLastSeenYear
        /\ RegistrationsRemoved =>
              \A j \in 1..Len(autos) :
                  /\ IsNum(RawMaxLastSeenYear)
                  /\ autos[j].registration_year.n <= RawMaxLastSeenYear.n

\* C7 witness: the latest last-seen year of the file is 2015, which became
\* the bound, and a row registered in 2016 was removed for it.
C7_Witness ==
    /\ RegistrationsRemoved
    /\ max_acceptable_year = Num(2015)
    /\ \E i \in 1..Len(raw) :
          /\ raw[i].yearOfRegistration = Num(2016)
          /\ \A j \in 1..Len(autos) : autos[j].index # i - 1
    /\ Len(autos) > 0

\* C8: after the outlier filters no row has a registration year later than
\* the year of its own last-seen timestamp or of its own ad-created
\* timestamp.
C8_CrossFieldConsistent ==
    RegistrationsRemoved =>
        \A j \in 1..Len(autos) :
            /\ HasYear(autos[j].last_seen) =>
                  autos[j].registration_year.n <= YearOf(autos[j].last_seen)
            /\ HasYear(autos[j].ad_created) =>
                  autos[j].registration_year.n <= YearOf(autos[j].ad_created)

-----------------------------------------------------------------------------
(* C6: compute_brands_avg_feature *)

\* the sum of column price over the rows of df at the positions S
RECURSIVE SumAt(_, _)
SumAt(df, S) ==
    IF S = {} THEN 0
    ELSE LET i == CHOOSE k \in S : TRUE
         IN  df[i].price.n + SumAt(df, S \ {i})

\* the retained brands that have a row in the table
BrandsPresent == {b \in call.brands : \E i \in 1..Len(call.df) : call.df[i].brand = b}

\* the positions of the rows of brand b that hold a price
Priced(b) == {i \in 1..Len(call.df) : call.df[i].brand = b /\ IsNum(call.df[i].price)}

\* the table and the retain-set of the example
C6_Example ==
    /\ call.df = BrandTable(<<[brand |-> Str("A"), price |-> Num(100)],
                              [brand |-> Str("A"), price |-> Num(300)],
                              [brand |-> Str("B"), price |-> Num(50)]>>)
    /\ call.brands = {Str("A"), Str("B")}

-----------------------------------------------------------------------------
(* C9: remove_registrations applied twice *)

\* C9: remove_registrations applied to its own result with the same bounds
\* returns that result: same rows, same order, same field values.
C9_Idempotent ==
    (pc = "reapplied" /\ call.fn = "remove_registrations") => ret = call.once

\* C9 witness: the first application removed rows and kept rows, and the
\* second application has run.
C9_Witness ==
    /\ pc = "reapplied"
    /\ Len(call.once) < Len(call.df)
    /\ Len(call.once) > 0
    /\ Len(call.df) - Len(call.once) >= 2

-----------------------------------------------------------------------------
(* C10: DataFrame.replace over the target columns *)

\* the columns named in a sequence of column names
Targets(cols) == {cols[k] : k \in 1..Len(cols)}

\* the value is a key of the mapping
IsKey(v, mapping) == v.t = "str" /\ v.s \in DOMAIN mapping

\* C10: the result has the rows of the table in the same number and order;
\* a cell of a target column whose value is a key of the mapping holds the
\* mapped value; every other cell (a value that is no key, NaN, a cell of a
\* column that is no target) is unchanged.
C10_ReplaceFrame ==
    (call.fn = "replace" /\ pc = "returned") =>
        /\ Len(ret) = Len(call.df)
        /\ \A i \in 1..Len(ret) :
              /\ ret[i].index = call.df[i].index
              /\ \A col \in {"gearbox", "model"} :
                    IF col \in Targets(call.cols) /\ IsKey(call.df[i][col], call.mapping)
                    THEN ret[i][col] = Str(call.mapping[call.df[i][col].s])
                    ELSE ret[i][col] = call.df[i][col]

\* C10 witness: gearbox is the only target; one row holds a key in gearbox
\* (translated) and the same key in model (kept), one row holds NaN and
\* one row a value that is no key.
C10_Witness ==
    /\ call.fn = "replace"
    /\ call.cols = <<"gearbox">>
    /\ call.mapping = mapping_ge_to_en
    /\ \E i \in 1..Len(ret) :
          /\ call.df[i].gearbox = Str("manuell")
          /\ call.df[i].model = Str("manuell")
          /\ ret[i].gearbox = Str("manual")
          /\ ret[i].model = Str("manuell")
    /\ \E i \in 1..Len(ret) : IsNull(call.df[i].gearbox) /\ IsNull(ret[i].gearbox)
    /\ \E i \in 1..Len(ret) : ret[i].gearbox = Str("manual") /\ call.df[i].gearbox = Str("manual")

-----------------------------------------------------------------------------
(* C5: the pipeline on the five-row file *)

\* the texts of a price of 0 and of a price of 400000, bare and as the
\* source file writes prices
ZeroPrices == {Txt(<<"0">>), Txt(<<"$", "0">>)}

HighPrices == {Txt(<<"4", "0", "0", "0", "0", "0">>),
               Txt(<<"$", "4", "0", "0", ",", "0", "0", "0">>)}

\* the row of the file with the given price and registration year; every
\* other column holds a regular value
E2ERow(price, year, brand, day) ==
    RawRow(price, year, brand, Str("kombi"), Str("manuell"), Str("benzin"),
           Str("nein"), Str("andere"), Km150,
           DateText(2016, 3, day, 17, 47, 46), DateText(2016, 3, day, 0, 0, 0),
           DateText(2016, 4, day, 14, 36, 58))

\* the two valid rows: prices and years at the bounds or inside them
ValidRows ==
    {E2ERow(Txt(<<"$", "1">>), 1886, "bmw", 1),
     E2ERow(Txt(<<"$", "3", "5", "0", ",", "0", "0", "0">>), 2016, "audi", 2),
     E2ERow(Txt(<<"$", "3", ",", "5", "0", "0">>), 2005, "opel", 3)}

\* a row priced 0, a row priced 400000, a row of year 1001 and two valid
\* rows
E2ERowSets ==
    {<<E2ERow(z, 2010, "ford", 4), E2ERow(h, 2011, "bmw", 5),
       E2ERow(Txt(<<"$", "9", "0", "0">>), 1001, "audi", 6), v, w>> :
        z \in ZeroPrices, h \in HighPrices, v \in ValidRows, w \in ValidRows}

\* the five rows in every order
E2EFiles ==
    {[i \in 1..5 |-> rows[p[i]]] :
        rows \in {r \in E2ERowSets : r[4] # r[5]},
        p \in {q \in [1..5 -> 1..5] : \A a, b \in 1..5 : q[a] = q[b] => a = b}}

InitE2E ==
    /\ pc = "load"
    /\ header = RawColumns
    /\ raw \in E2EFiles
    /\ autos = Unbound
    /\ last_seen_years = Unbound
    /\ max_acceptable_year = Unbound
    /\ outliers_year_mask = Unbound
    /\ brands = Unbound
    /\ brand_avg_prices = Unbound
    /\ brand_avg_mileages = Unbound
    /\ prices_and_mileages = Unbound
    /\ top_brands_means = Unbound
    /\ date_i = 1
    /\ call = NoCall
    /\ ret = Unbound

SpecE2E == InitE2E /\ [][Next]_vars

\* the labels of the two valid rows of the file
ValidLabels ==
    {i - 1 : i \in {k \in 1..Len(raw) :
                       /\ raw[k].price \notin ZeroPrices \cup HighPrices
                       /\ raw[k].yearOfRegistration # Num(1001)}}

\* the text is a timestamp written YYYYMMDD HH:MM:SS
IsCanonicalDate(v) ==
    /\ IsTxt(v)
    /\ Len(v.c) = 17
    /\ \A k \in (1..8) \cup {10, 11, 13, 14, 16, 17} : IsDigit(v.c[k])
    /\ v.c[9] = " "
    /\ v.c[12] = ":"
    /\ v.c[15] = ":"

\* C5: the run on the five-row file does not fail, and at its end the table
\* holds exactly the two valid rows, in the order of the file; price and
\* odometer_km are numbers and the three date columns hold
\* YYYYMMDD HH:MM:SS texts.
C5_EndToEnd ==
    /\ pc # "failed"
    /\ pc = "done" =>
          /\ Len(autos) = 2
          /\ {autos[j].index : j \in 1..Len(autos)} = ValidLabels
          /\ autos[1].index < autos[2].index
          /\ \A j \in 1..Len(autos) :
                /\ IsNum(autos[j].price)
                /\ IsNum(autos[j].odometer_km)
                /\ IsCanonicalDate(autos[j].date_crawled)
                /\ IsCanonicalDate(autos[j].ad_created)
                /\ IsCanonicalDate(autos[j].last_seen)

\* C5 witness: the run on a five-row file that starts with the row priced
\* 0 and ends with the row of year 1001 is over; the two rows left hold the
\* prices 1 and 350000 and a rewritten timestamp.
C5_Witness ==
    /\ pc = "done"
    /\ Len(raw) = 5
    /\ raw[1].price \in ZeroPrices
    /\ raw[5].yearOfRegistration = Num(1001)
    /\ \E j \in 1..Len(autos) : autos[j].price = Num(1)
    /\ \E j \in 1..Len(autos) :
          /\ autos[j].price = Num(350000)
          /\ autos[j].last_seen = Txt(<<"2", "0", "1", "6", "0", "4", "0", "2", " ",
                                         "1", "4", ":", "3", "6", ":", "5", "8">>)

-----------------------------------------------------------------------------
(* C11: replace applied twice *)

\* no value of the mapping is one of its keys
KeysValuesDisjoint(mapping) == \A k \in DOMAIN mapping : mapping[k] \notin DOMAIN mapping

\* C11: for a mapping whose keys and values are disjoint, replace applied to
\* its own result with the same columns and mapping returns that result.
C11_ReplaceIdempotent ==
    (pc = "reapplied" /\ call.fn = "replace" /\ KeysValuesDisjoint(call.mapping))
        => ret = call.once

\* C11 witness: the German-to-English mapping has changed a gearbox cell in
\* the first application, and the second application has run.
C11_Witness ==
    /\ pc = "reapplied"
    /\ call.fn = "replace"
    /\ call.mapping = mapping_ge_to_en
    /\ \E i \in 1..Len(call.df) :
          /\ call.df[i].gearbox = Str("manuell")
          /\ call.once[i].gearbox = Str("manual")
          /\ ret[i].gearbox = Str("manual")

-----------------------------------------------------------------------------
(* C12: the categorical columns after the translation *)

\* the translation cell has run and the run goes on
Translated == pc \in {"translate_model", "reformat_dates", "price_notnull", "done"}

\* the name in the source file of a translated column
RawName(col) ==
    CASE col = "vehicle_type"      -> "vehicleType"
      [] col = "gearbox"           -> "gearbox"
      [] col = "fuel_type"         -> "fuelType"
      [] col = "unrepaired_damage" -> "notRepairedDamage"

TranslatedColumns == {"vehicle_type", "gearbox", "fuel_type", "unrepaired_damage"}

\* the target vocabulary: the values of the mapping table
TargetVocabulary == {mapping_ge_to_en[k] : k \in DOMAIN mapping_ge_to_en}

\* C12 as stated: after the translation every cell of the four categorical
\* columns is null or a value of the mapping table.
C12_TargetVocabularyOnly ==
    Translated =>
        \A j \in 1..Len(autos) : \A col \in TranslatedColumns :
            \/ IsNull(autos[j][col])
            \/ autos[j][col].s \in TargetVocabulary

\* C12: after the translation a cell of the four categorical columns holds
\* the mapped value when the cell of the file was a key of the mapping
\* table and the value of the file (null included) otherwise; no key of the
\* mapping table is left in those columns.
C12_KeysTranslated ==
    Translated =>
        \A j \in 1..Len(autos) : \A col \in TranslatedColumns :
            LET old == raw[autos[j].index + 1][RawName(col)]
                new == autos[j][col]
            IN  /\ IF ~IsNull(old) /\ old.s \in DOMAIN mapping_ge_to_en
                   THEN new = Str(mapping_ge_to_en[old.s])
                   ELSE new = old
                /\ IsNull(new) \/ new.s \notin DOMAIN mapping_ge_to_en

\* C12 witness: after the translation one row holds a translated gearbox,
\* a vehicle type that the mapping table does not list and a null
\* unrepaired_damage.
C12_Witness ==
    /\ Translated
    /\ \E j \in 1..Len(autos) :
          /\ raw[autos[j].index + 1].gearbox = Str("manuell")
          /\ autos[j].gearbox = Str("manual")
          /\ autos[j].vehicle_type = Str("kombi")
          /\ IsNull(autos[j].unrepaired_damage)

-----------------------------------------------------------------------------
(* C13: a cell that is no number or no timestamp *)

\* the text is written with digits only
IsNumberText(v) == IsTxt(v) /\ v.c # <<>> /\ AllDigits(v.c)

\* the text is a timestamp written YYYY-MM-DD HH:MM:SS
IsDateText(v) == IsTxt(v) /\ ParsesAsDate(v.c)

\* the cast of column col has completed: the rows are the same in number and
\* position, a text of digits is its number, any other text is null
CastCompleted(col) ==
    /\ pc' # "failed"
    /\ Len(autos') = Len(autos)
    /\ \A i \in 1..Len(autos) :
          /\ autos'[i].index = autos[i].index
          /\ IsNumberText(autos[i][col]) => autos'[i][col] = Num(DigitsVal(autos[i][col].c))
          /\ (IsTxt(autos[i][col]) /\ ~IsNumberText(autos[i][col])) => IsNull(autos'[i][col])

\* the rewriting of column col has completed: the rows are the same in
\* number and position, a timestamp is rewritten, any other text is null
RewriteCompleted(col) ==
    /\ pc' # "failed"
    /\ Len(autos') = Len(autos)
    /\ \A i \in 1..Len(autos) :
          /\ autos'[i].index = autos[i].index
          /\ IsDateText(autos[i][col]) => IsTxt(autos'[i][col]) /\ Len(autos'[i][col].c) = 17
          /\ (IsTxt(autos[i][col]) /\ ~IsDateText(autos[i][col])) => IsNull(autos'[i][col])

\* C13: a text that is no number (casts of price and odometer_km) or no
\* timestamp (date loop) becomes null, the step completes, the other cells
\* are converted and the rows are the same in number and position.
C13_ParseFailureNotFatal ==
    [][/\ pc = "price_float" => CastCompleted("price")
       /\ pc = "odometer_float" => CastCompleted("odometer_km")
       /\ pc = "reformat_dates" => RewriteCompleted(date_columns[date_i])]_vars

-----------------------------------------------------------------------------
(* C14: bounds that are inconsistent *)

\* the year bounds are known and the lower one is above the upper one
InconsistentYearBounds ==
    IsNum(max_acceptable_year) /\ min_acceptable_year > max_acceptable_year.n

\* C14: when the bounds are inconsistent (price_min > price_max or
\* min_acceptable_year > max_acceptable_year) the run has ended in an error
\* and the table is the table as loaded.
C14_ConfigErrorBeforeRows ==
    (price_min > price_max \/ InconsistentYearBounds) =>
        /\ pc = "failed"
        /\ autos = load_autos(raw)

-----------------------------------------------------------------------------
(* C15: a cell that raises ends the run *)

\* the three date columns of every row are rewritten
AllDatesRewritten ==
    \A j \in 1..Len(autos) :
        /\ IsCanonicalDate(autos[j].date_crawled)
        /\ IsCanonicalDate(autos[j].ad_created)
        /\ IsCanonicalDate(autos[j].last_seen)

-----------------------------------------------------------------------------
(* C16: remove_chars followed by astype(float) *)

\* the text with the substrings of chars removed, one after the other
Stripped(v, chars) == remove_chars_text(v.c, chars)

\* the text is made of digits once the substrings are removed
DigitsOnceStripped(v, chars) ==
    IsTxt(v) /\ Stripped(v, chars) # <<>> /\ AllDigits(Stripped(v, chars))

-----------------------------------------------------------------------------
(* C17: pd.to_datetime followed by strftime on one column *)

\* the timestamp YYYY-MM-DD HH:MM:SS written YYYYMMDD HH:MM:SS
WithoutDashes(c) == SubSeq(c, 1, 4) \o SubSeq(c, 6, 7) \o SubSeq(c, 9, 19)

\* C17: the rewriting never fails; a timestamp YYYY-MM-DD HH:MM:SS becomes
\* YYYYMMDD HH:MM:SS with the same year, month, day, hour, minute and
\* second, and a text that is no timestamp becomes null.
C17_ReformatOrNull ==
    call.fn = "reformat_dates" =>
        /\ ~call.raised
        /\ Len(ret) = Len(call.series)
        /\ \A i \in 1..Len(ret) :
              IF IsDateText(call.series[i].v)
              THEN ret[i].v = Txt(WithoutDashes(call.series[i].v.c))
              ELSE IsNull(ret[i].v)

-----------------------------------------------------------------------------
(* C18: the load and the renaming of the columns *)

-----------------------------------------------------------------------------
(* C19: the means of compute_brands_avg_feature and of groupby *)

\* the table of cell 101 has been computed
GroupedByBrand == pc = "translate" \/ Translated

\* C19: the table of the groupby lists the brands of the two mappings, each
\* once, and the row of a brand holds the means that
\* compute_brands_avg_feature returned for the brand, rounded to two
\* decimals.
C19_GroupbyEquivalent ==
    GroupedByBrand =>
        /\ {top_brands_means[k].index : k \in 1..Len(top_brands_means)}
               = DOMAIN brand_avg_prices.d
        /\ Len(top_brands_means) = Cardinality(DOMAIN brand_avg_prices.d)
        /\ \A k \in 1..Len(top_brands_means) :
              LET b == top_brands_means[k].index
              IN  /\ top_brands_means[k].price = Round2(brand_avg_prices.d[b])
                  /\ top_brands_means[k].odometer_km = Round2(brand_avg_mileages.d[b])

-----------------------------------------------------------------------------
(* C20: the aggregates before and after the translation and the dates *)

\* the retain-set and the two mappings computed on the table df
AggregatesOf(df) ==
    [brands   |-> top_brands(df),
     prices   |-> Dict(compute_brands_avg_feature(df, top_brands(df), "price")),
     mileages |-> Dict(compute_brands_avg_feature(df, top_brands(df), "odometer_km"))]

\* the cells of the translation and of the date loop
TranslatorOrDates == {"translate", "translate_model", "reformat_dates"}

\* C20: a step of the translation or of the date loop that does not fail
\* keeps the rows, their order and the columns brand, price and
\* odometer_km, so the retain-set and the two mappings computed on the
\* table after it are those computed on the table before it; the ones the
\* notebook has computed are those of the table the translation starts on.
C20_AggregatesCommute ==
    [][/\ (pc \in TranslatorOrDates /\ pc' # "failed") =>
              /\ Len(autos') = Len(autos)
              /\ \A i \in 1..Len(autos) :
                    /\ autos'[i].index = autos[i].index
                    /\ autos'[i].brand = autos[i].brand
                    /\ autos'[i].price = autos[i].price
                    /\ autos'[i].odometer_km = autos[i].odometer_km
              /\ AggregatesOf(autos') = AggregatesOf(autos)
       /\ pc = "translate" =>
              AggregatesOf(autos) = [brands |-> brands, prices |-> brand_avg_prices,
                                     mileages |-> brand_avg_mileages]]_vars

\* C20 witness: the translation and the date loop are over; a gearbox was
\* translated, the dates are rewritten, two brands are retained and the
\* aggregates computed on the table as it is now are the ones computed
\* before.
C20_Witness ==
    /\ pc = "price_notnull"
    /\ Cardinality(brands) >= 2
    /\ \E j \in 1..Len(autos) :
          /\ autos[j].gearbox = Str("manual")
          /\ IsCanonicalDate(autos[j].last_seen)
          /\ IsNull(autos[j].price)
    /\ AggregatesOf(autos).prices = brand_avg_prices

-----------------------------------------------------------------------------
(* C21: the mean prices and the rows without a price *)

\* the labels of the rows of the file whose registration year is in range
LabelsInYearRange ==
    {i - 1 : i \in {k \in 1..Len(raw) :
                       /\ IsNum(max_acceptable_year)
                       /\ min_acceptable_year <= raw[k].yearOfRegistration.n
                       /\ raw[k].yearOfRegistration.n <= max_acceptable_year.n}}

\* the positions of the rows of brand b in the table df
RowsOf(df, b) == {i \in 1..Len(df) : df[i].brand = b}

====
